---- MODULE Spec2Model ----
(***************************************************************************)
(* wgpu-hal/examples/bunnymark/main.rs: Example::init, Example::update and *)
(* Example::render, as a state machine of the host thread, with the GPU    *)
(* queue and the swapchain it drives as a second, asynchronous party.      *)
(*                                                                         *)
(* Numbers.  The f32 quantities are kept as exact rationals on a fixed     *)
(* grid: a velocity v px/s is the integer v * VelScale, a position p px is *)
(* the integer p * PosScale.  Every value the code computes from the       *)
(* constants below lies on that grid, so + and * are exact here; the       *)
(* rounding of f32 is not modelled.                                        *)
(*                                                                         *)
(* bunnies: Vec<Locals> is kept run-length encoded: a sequence of runs     *)
(* [count, rec], standing for count consecutive equal elements rec.  The   *)
(* vector is the concatenation of the runs; BunniesLen and BunnyAt give    *)
(* its length and its elements.                                            *)
(*                                                                         *)
(* elapsed.as_nanos() is a u128: it is kept as two words [hi, lo], value   *)
(* hi * 2^32 + lo.                                                         *)
(***************************************************************************)
EXTENDS Integers, Sequences, FiniteSets, TLC

\* ------------------------------------------------------------ constants

MAX_BUNNIES == 1048576
GRAVITY == -980
MAX_VELOCITY == 750
\* BUNNY_SIZE = 0.15 * 256.0, as the fraction BunnySizeNum / BunnySizeDen
BunnySizeNum == 15 * 256
BunnySizeDen == 100
\* let delta = 0.01
DeltaDen == 100
\* #[repr(C, align(256))] struct Locals: the alignment and the bytes of its fields
LocalsAlign == 256
LocalsFieldBytes == 2 * 4 + 2 * 4 + 4 + 4
\* wgt::BIND_BUFFER_ALIGNMENT
BIND_BUFFER_ALIGNMENT == 256
\* swap_chain_size
SwapChainSize == 2
\* the fence value the init submission signals and init waits for
InitFenceValue == 1

\* ---------------------------------------------------------------- units

\* 17 * 5: the denominators of MAX_VELOCITY / 255 and of GRAVITY * delta
VelScale == 17 * 5
PosScale == VelScale * DeltaDen

\* ---------------------------------------------------------------- bounds

\* Space presses and render ticks explored by Spec
MaxSpawns == 2
MaxTicks == 2
\* Space presses and render ticks explored by SpecGrowth
MaxSpawnsGrowth == 30
MaxTicksGrowth == 1
\* Space presses and render ticks explored by SpecPhysics
MaxSpawnsPhysics == 1
MaxTicksPhysics == 30

\* window.inner_size() at start-up
WindowSizes == {<<4, 2>>, <<800, 600>>}
\* readings of self.start.elapsed().as_nanos(): 0, 255 and 2^32 + 127
ElapsedSamples == {[hi |-> 0, lo |-> 0], [hi |-> 0, lo |-> 255], [hi |-> 1, lo |-> 127]}

\* -------------------------------------------------------------- helpers

Min(a, b) == IF a < b THEN a ELSE b

\* buffer sizes and offsets are counted in units of one [f32; 2], 8 bytes, which
\* divides every field group of Locals and both alignments: the byte counts of a
\* few million records need more than 31 bits
SizeUnit == 2 * 4
Sized(bytes) == bytes \div SizeUnit

\* mem::size_of::<Locals>(): the field bytes rounded up to the alignment
SizeOfLocals ==
  Sized(((LocalsFieldBytes + LocalsAlign - 1) \div LocalsAlign) * LocalsAlign)

\* local_buffer_desc.size
LocalBufferSize == MAX_BUNNIES * Sized(BIND_BUFFER_ALIGNMENT)

\* Duration order (Instant is monotonic)
ElapsedLeq(a, b) == a.hi < b.hi \/ (a.hi = b.hi /\ a.lo <= b.lo)

\* AsU32 saturating instead of truncating
AsU32Saturating(e) == IF e.hi > 0 THEN 2147483647 ELSE e.lo

\* elapsed.as_nanos() as u32
AsU32(e) == e.lo

\* elapsed.as_nanos() & 0xFF
LowByte(e) == e.lo % 256

RECURSIVE RunsLen(_)
RunsLen(runs) == IF runs = <<>> THEN 0 ELSE Head(runs).count + RunsLen(Tail(runs))

RECURSIVE RunsAt(_, _)
RunsAt(runs, i) ==
  IF i < Head(runs).count THEN Head(runs).rec ELSE RunsAt(Tail(runs), i - Head(runs).count)

\* Vec::push of count equal elements
PushRun(runs, count, rec) ==
  IF count = 0 THEN runs
  ELSE IF runs # <<>> /\ runs[Len(runs)].rec = rec
       THEN [runs EXCEPT ![Len(runs)].count = @ + count]
       ELSE Append(runs, [count |-> count, rec |-> rec])

\* the first n elements of the vector
RECURSIVE RunsPrefix(_, _)
RunsPrefix(runs, n) ==
  IF n <= 0 \/ runs = <<>> THEN <<>>
  ELSE IF Head(runs).count >= n THEN <<[count |-> n, rec |-> Head(runs).rec]>>
       ELSE <<Head(runs)>> \o RunsPrefix(Tail(runs), n - Head(runs).count)

\* ---------------------------------------------------------------- state

VARIABLES
  pc,              \* where the host thread stands in init / update / render
  window_size,     \* window.inner_size()
  extent,          \* Example::extent
  bunnies,         \* Example::bunnies, run-length encoded
  clock,           \* the last reading of self.start.elapsed()
  staging_buffer,  \* [state, use] of the staging buffer
  texture,         \* [use, content] of the placeholder texture
  init_cmd,        \* the commands recorded into init_cmd
  fence,           \* [state, value] of the init fence
  local_buffer,    \* Example::local_buffer: [mapped, runs, bytes (in size units), tick, overrun]
  cmd_buf,         \* the commands recorded into the frame's cmd_buf
  surface_tex,     \* the swapchain image render holds, 0 for none
  swapchain,       \* per image: [state, frame]
  gpu_queue,       \* submitted command buffers, oldest first
  gpu_pos,         \* commands of the oldest submission already executed
  ticks,           \* render calls begun
  calls,           \* the HAL calls of the current render call, in order
  spawns,          \* Space presses handled by update
  event            \* the argument of the update call in progress, NoEvent outside

vars == <<pc, window_size, extent, bunnies, clock, staging_buffer, texture, init_cmd,
          fence, local_buffer, cmd_buf, surface_tex, swapchain, gpu_queue, gpu_pos,
          ticks, calls, spawns, event>>

initVars == <<staging_buffer, texture, init_cmd, fence>>
simVars == <<bunnies, clock, spawns, event>>
frameVars == <<local_buffer, cmd_buf, surface_tex, swapchain, calls>>
gpuVars == <<gpu_queue, gpu_pos>>

Images == 1 .. SwapChainSize

\* no update call is in progress
NoEvent == [kind |-> "None", key |-> "None", state |-> "None"]

\* one entry of calls: the HAL function called and the argument or result the
\* model keeps of it
Call(name, arg) == [call |-> name, arg |-> arg]

\* BunniesLen is self.bunnies.len(), BunnyAt(i) is self.bunnies[i]
BunniesLen == RunsLen(bunnies)
BunnyAt(i) == RunsAt(bunnies, i)

Init ==
  /\ pc = "init_staging"
  /\ window_size \in WindowSizes
  /\ extent = <<0, 0>>
  /\ bunnies = <<>>
  /\ clock = [hi |-> 0, lo |-> 0]
  /\ staging_buffer = [state |-> "none", use |-> "EMPTY"]
  /\ texture = [use |-> "NONE", content |-> "none"]
  /\ init_cmd = <<>>
  /\ fence = [state |-> "none", value |-> 0]
  /\ local_buffer = [created |-> FALSE, mapped |-> FALSE, runs |-> <<>>, bytes |-> 0,
                     tick |-> 0, overrun |-> FALSE]
  /\ cmd_buf = <<>>
  /\ surface_tex = 0
  /\ swapchain = [i \in Images |-> [state |-> "free", frame |-> 0]]
  /\ gpu_queue = <<>>
  /\ gpu_pos = 0
  /\ ticks = 0
  /\ calls = <<>>
  /\ spawns = 0
  /\ event = NoEvent

\* ----------------------------------------------------------- Example::init

\* create the staging buffer, map it, copy the texel bytes, unmap it
InitStaging ==
  /\ pc = "init_staging"
  /\ staging_buffer' = [state |-> "written", use |-> "EMPTY"]
  /\ pc' = "init_record"
  /\ UNCHANGED <<window_size, extent, simVars, texture, init_cmd, fence, frameVars,
                 gpuVars, ticks>>

\* InitCommands with the copy recorded ahead of the texture's first transition
InitCommandsCopyFirst ==
  << [op |-> "transition_buffers", from |-> "EMPTY", to |-> "COPY_SRC"],
     [op |-> "copy_buffer_to_texture", from |-> "staging", to |-> "texture"],
     [op |-> "transition_textures", from |-> "UNINITIALIZED", to |-> "COPY_DST"],
     [op |-> "transition_textures", from |-> "COPY_DST", to |-> "SAMPLED"] >>

\* the commands init records into init_cmd, in recording order
InitCommands ==
  << [op |-> "transition_buffers", from |-> "EMPTY", to |-> "COPY_SRC"],
     [op |-> "transition_textures", from |-> "UNINITIALIZED", to |-> "COPY_DST"],
     [op |-> "copy_buffer_to_texture", from |-> "staging", to |-> "texture"],
     [op |-> "transition_textures", from |-> "COPY_DST", to |-> "SAMPLED"] >>

\* create the texture and the init command buffer, record the upload
InitRecord ==
  /\ pc = "init_record"
  /\ texture' = [use |-> "UNINITIALIZED", content |-> "undefined"]
  /\ init_cmd' = InitCommands
  /\ pc' = "init_resources"
  /\ UNCHANGED <<window_size, extent, simVars, staging_buffer, fence, frameVars,
                 gpuVars, ticks>>

\* sampler, global buffer, local buffer, view, bind groups
InitResources ==
  /\ pc = "init_resources"
  /\ local_buffer' = [local_buffer EXCEPT !.created = TRUE]
  /\ pc' = "init_submit"
  /\ UNCHANGED <<window_size, extent, simVars, initVars, cmd_buf, surface_tex, calls,
                 swapchain, gpuVars, ticks>>

\* create_fence, init_cmd.finish(), queue.submit(init_cmd, Some((&fence, 1)))
InitSubmit ==
  /\ pc = "init_submit"
  /\ fence' = [state |-> "alive", value |-> 0]
  /\ gpu_queue' = Append(gpu_queue,
                         [label |-> "init", cmds |-> init_cmd, signal |-> InitFenceValue,
                          frame |-> 0])
  /\ pc' = "init_wait"
  /\ UNCHANGED <<window_size, extent, simVars, staging_buffer, texture, init_cmd,
                 frameVars, gpu_pos, ticks>>

\* InitWait without the wait: init goes on while the upload may still execute
InitWaitNoBlock ==
  /\ pc = "init_wait"
  /\ pc' = "init_destroy_fence"
  /\ UNCHANGED <<window_size, extent, simVars, initVars, frameVars, gpuVars, ticks>>

\* device.wait(&fence, 1, !0): returns once the fence has reached the value
InitWait ==
  /\ pc = "init_wait"
  /\ fence.value >= InitFenceValue
  /\ pc' = "init_destroy_fence"
  /\ UNCHANGED <<window_size, extent, simVars, initVars, frameVars, gpuVars, ticks>>

\* device.destroy_fence(fence)
InitDestroyFence ==
  /\ pc = "init_destroy_fence"
  /\ fence' = [fence EXCEPT !.state = "destroyed"]
  /\ pc' = "init_destroy_buffer"
  /\ UNCHANGED <<window_size, extent, simVars, staging_buffer, texture, init_cmd,
                 frameVars, gpuVars, ticks>>

\* device.destroy_buffer(staging_buffer)
InitDestroyBuffer ==
  /\ pc = "init_destroy_buffer"
  /\ staging_buffer' = [staging_buffer EXCEPT !.state = "destroyed"]
  /\ pc' = "init_return"
  /\ UNCHANGED <<window_size, extent, simVars, texture, init_cmd, fence, frameVars,
                 gpuVars, ticks>>

\* Ok(Example { bunnies: Vec::new(), extent: [w, h], start: Instant::now(), .. })
InitReturn ==
  /\ pc = "init_return"
  /\ bunnies' = <<>>
  /\ extent' = window_size
  /\ clock' = [hi |-> 0, lo |-> 0]
  /\ pc' = "idle"
  /\ UNCHANGED <<window_size, spawns, event, initVars, frameVars, gpuVars, ticks>>

\* ------------------------------------------------------------------ GPU

\* the texture after the GPU has executed cmd
GpuTexture(cmd) ==
  IF cmd.op = "transition_textures"
  THEN [texture EXCEPT !.use = IF texture.use = cmd.from THEN cmd.to ELSE "INVALID"]
  ELSE IF cmd.op = "copy_buffer_to_texture"
  THEN [texture EXCEPT !.content =
          IF /\ texture.use = "COPY_DST"
             /\ staging_buffer.state = "written"
             /\ staging_buffer.use = "COPY_SRC"
          THEN "texels" ELSE "garbage"]
  ELSE texture

\* the staging buffer after the GPU has executed cmd
GpuStaging(cmd) ==
  IF cmd.op = "transition_buffers" /\ staging_buffer.use = cmd.from
  THEN [staging_buffer EXCEPT !.use = cmd.to]
  ELSE staging_buffer

\* the queue executes the next command of its oldest submission; with the last
\* command the submission retires and its fence, if any, is signalled
GpuStep ==
  /\ gpu_queue # <<>>
  /\ LET sub == Head(gpu_queue)
         cmd == sub.cmds[gpu_pos + 1]
     IN /\ texture' = GpuTexture(cmd)
        /\ staging_buffer' = GpuStaging(cmd)
        /\ IF gpu_pos + 1 = Len(sub.cmds)
           THEN /\ gpu_queue' = Tail(gpu_queue)
                /\ gpu_pos' = 0
                /\ fence' = IF sub.signal > 0 THEN [fence EXCEPT !.value = sub.signal]
                            ELSE fence
           ELSE /\ gpu_pos' = gpu_pos + 1
                /\ UNCHANGED <<gpu_queue, fence>>
  /\ UNCHANGED <<pc, window_size, extent, simVars, init_cmd, frameVars, ticks>>

\* the frames submitted and not yet retired
FramesInFlight == {gpu_queue[k].frame : k \in 1 .. Len(gpu_queue)} \ {0}

\* an image acquire_texture can hand out: never acquired, or presented with its
\* frame retired
ImageAvailable(i) ==
  \/ swapchain[i].state = "free"
  \/ swapchain[i].state = "presented" /\ swapchain[i].frame \notin FramesInFlight

\* -------------------------------------------------------- Example::update

KeyEvents ==
  { [kind |-> "KeyboardInput", key |-> k, state |-> st] :
      k \in {"Space", "Escape"}, st \in {"Pressed", "Released"} }

Events == KeyEvents \cup {[kind |-> "Resized", key |-> "None", state |-> "None"]}

\* IsSpawnTrigger without the test of the key state
IsSpawnTriggerAnyState(ev) == ev.kind = "KeyboardInput" /\ ev.key = "Space"

\* the pattern of the if let in update
IsSpawnTrigger(ev) ==
  ev.kind = "KeyboardInput" /\ ev.key = "Space" /\ ev.state = "Pressed"

\* SpawnCount without the halving of the population
SpawnCountWhole(n) == 64 + n

\* let spawn_count = 64 + self.bunnies.len() / 2
SpawnCount(n) == 64 + n \div 2

\* random * MAX_VELOCITY - (MAX_VELOCITY * 0.5), random = low byte / 255.0
SpawnSpeed(elapsed) ==
  (LowByte(elapsed) * MAX_VELOCITY * VelScale) \div 255 - (MAX_VELOCITY * VelScale) \div 2

\* the Locals pushed by one iteration of the spawn loop
SpawnRecord(elapsed, ext) ==
  [ position |-> <<0, (ext[2] * PosScale) \div 2>>,
    velocity |-> <<SpawnSpeed(elapsed), 0>>,
    color |-> AsU32(elapsed),
    pad |-> 0 ]

\* the call update(ev): the window event becomes the argument of update
UpdateCall(ev) ==
  /\ pc = "idle"
  /\ event' = ev
  /\ pc' = "update"
  /\ UNCHANGED <<window_size, extent, bunnies, clock, spawns, initVars, frameVars,
                 gpuVars, ticks>>

\* the body of fn update(&mut self, event), the elapsed time read being `elapsed`
Update(elapsed) ==
  /\ pc = "update"
  /\ ElapsedLeq(clock, elapsed)
  /\ IF IsSpawnTrigger(event)
     THEN /\ bunnies' = PushRun(bunnies, SpawnCount(BunniesLen), SpawnRecord(elapsed, extent))
          /\ clock' = elapsed
          /\ spawns' = spawns + 1
     ELSE UNCHANGED <<bunnies, clock, spawns>>
  /\ event' = NoEvent
  /\ pc' = "idle"
  /\ UNCHANGED <<window_size, extent, initVars, frameVars, gpuVars, ticks>>

\* -------------------------------------------------------- Example::render

\* 0.5 * BUNNY_SIZE, in position units
HalfBunny == (BunnySizeNum * PosScale) \div (BunnySizeDen * 2)

\* velocity * delta, in position units
Displacement(v) == (v * PosScale) \div (VelScale * DeltaDen)

\* GRAVITY taken per second, without the delta factor
GravityStepPerSecond == GRAVITY * VelScale

\* GRAVITY * delta, in velocity units
GravityStep == (GRAVITY * VelScale) \div DeltaDen

\* the body of `for bunny in self.bunnies.iter_mut()` on one bunny
StepBunny(b, ext) ==
  LET px == b.position[1] + Displacement(b.velocity[1])
      py == b.position[2] + Displacement(b.velocity[2])
      vy == b.velocity[2] + GravityStep
      vx == b.velocity[1]
      hitsSide == \/ vx > 0 /\ px + HalfBunny > ext[1] * PosScale
                  \/ vx < 0 /\ px - HalfBunny < 0
      hitsGround == vy < 0 /\ py < HalfBunny
  IN [b EXCEPT !.position = <<px, py>>,
               !.velocity = << IF hitsSide THEN -vx ELSE vx,
                               IF hitsGround THEN -vy ELSE vy >>]

\* the physics loop leaving the vector in reverse order
StepBunniesReversed(runs, ext) ==
  [k \in 1 .. Len(runs) |->
     [count |-> runs[Len(runs) + 1 - k].count,
      rec |-> StepBunny(runs[Len(runs) + 1 - k].rec, ext)]]

\* the physics loop over the whole vector
StepBunnies(runs, ext) ==
  [k \in 1 .. Len(runs) |-> [count |-> runs[k].count, rec |-> StepBunny(runs[k].rec, ext)]]

PhysicsStep ==
  /\ pc = "idle"
  /\ bunnies' = StepBunnies(bunnies, extent)
  /\ ticks' = ticks + 1
  /\ calls' = <<>>
  /\ pc' = "upload_map"
  /\ UNCHANGED <<window_size, extent, clock, spawns, event, initVars, local_buffer, cmd_buf,
                 surface_tex, swapchain, gpuVars>>

\* let size = self.bunnies.len() * wgt::BIND_BUFFER_ALIGNMENT as usize
UploadSize == BunniesLen * Sized(BIND_BUFFER_ALIGNMENT)

\* map_buffer(&self.local_buffer, 0..size).unwrap(): a range inside the buffer is
\* mapped; a range past its end is refused (Err, the unwrap panics) or mapped
\* unchecked, as the backend has it
MapOutcomes(size) == IF size <= LocalBufferSize THEN {"mapped"} ELSE {"mapped", "refused"}

BufferMap ==
  /\ pc = "upload_map"
  /\ \E outcome \in MapOutcomes(UploadSize) :
       IF outcome = "mapped"
       THEN /\ local_buffer' = [local_buffer EXCEPT !.mapped = TRUE]
            /\ pc' = "upload_copy"
       ELSE /\ pc' = "panicked"
            /\ UNCHANGED local_buffer
  /\ calls' = Append(calls, Call("map_buffer", UploadSize))
  /\ UNCHANGED <<window_size, extent, simVars, initVars, cmd_buf, surface_tex,
                 swapchain, gpuVars, ticks>>

\* ptr::copy_nonoverlapping(self.bunnies.as_ptr() as *const u8, ptr, size): the
\* bytes that fit the buffer land in it; bytes past its end are written outside
\* it, which corrupts memory or faults
CopyOutcomes(size) == IF size <= LocalBufferSize THEN {"copied"} ELSE {"overrun", "fault"}

BufferCopy ==
  /\ pc = "upload_copy"
  /\ \E outcome \in CopyOutcomes(UploadSize) :
       IF outcome = "fault"
       THEN /\ pc' = "crashed"
            /\ UNCHANGED local_buffer
       ELSE /\ local_buffer' = [local_buffer EXCEPT
                                  !.runs = bunnies,
                                  !.bytes = Min(UploadSize, LocalBufferSize),
                                  !.tick = ticks,
                                  !.overrun = (outcome = "overrun")]
            /\ pc' = "upload_unmap"
  /\ UNCHANGED <<window_size, extent, simVars, initVars, cmd_buf, surface_tex,
                 swapchain, gpuVars, ticks, calls>>

\* BufferUnmap going straight on to the submission, with no pass recorded
BufferUnmapThenSubmit ==
  /\ pc = "upload_unmap"
  /\ local_buffer' = [local_buffer EXCEPT !.mapped = FALSE]
  /\ pc' = "submit"
  /\ calls' = Append(calls, Call("unmap_buffer", 0))
  /\ UNCHANGED <<window_size, extent, simVars, initVars, cmd_buf, surface_tex,
                 swapchain, gpuVars, ticks>>

\* self.device.unmap_buffer(&self.local_buffer).unwrap()
BufferUnmap ==
  /\ pc = "upload_unmap"
  /\ local_buffer' = [local_buffer EXCEPT !.mapped = FALSE]
  /\ pc' = "acquire"
  /\ calls' = Append(calls, Call("unmap_buffer", 0))
  /\ UNCHANGED <<window_size, extent, simVars, initVars, cmd_buf, surface_tex,
                 swapchain, gpuVars, ticks>>

\* acquire_texture(!0): an available image, 0 for Ok(None) (no image in time),
\* -1 for Err (the surface is lost)
AcquireOutcomes ==
  LET avail == {i \in Images : ImageAvailable(i)}
  IN IF avail = {} THEN {0, -1}
     ELSE {CHOOSE i \in avail : \A j \in avail : i <= j, -1}

\* create_command_buffer, acquire_texture(!0).unwrap().unwrap(), create_texture_view
AcquireTexture ==
  /\ pc = "acquire"
  /\ cmd_buf' = <<>>
  /\ \E got \in AcquireOutcomes :
       IF got > 0
       THEN /\ surface_tex' = got
            /\ swapchain' = [swapchain EXCEPT ![got] = [state |-> "acquired", frame |-> ticks]]
            /\ calls' = calls \o << Call("create_command_buffer", 0),
                                    Call("acquire_texture", got),
                                    Call("create_texture_view", got) >>
            /\ pc' = "begin_pass"
       ELSE /\ calls' = calls \o << Call("create_command_buffer", 0),
                                    Call("acquire_texture", got) >>
            /\ pc' = "panicked"
            /\ UNCHANGED <<surface_tex, swapchain>>
  /\ UNCHANGED <<window_size, extent, simVars, initVars, local_buffer, gpuVars, ticks>>

\* begin_render_pass, set_render_pipeline, set_bind_group(.., 0, global_group, &[])
PassCommands ==
  << [op |-> "begin_render_pass", target |-> surface_tex],
     [op |-> "set_render_pipeline"],
     [op |-> "set_bind_group", index |-> 0, group |-> "global", offsets |-> <<>>] >>

BeginPass ==
  /\ pc = "begin_pass"
  /\ cmd_buf' = cmd_buf \o PassCommands
  /\ calls' = calls \o << Call("begin_render_pass", surface_tex),
                          Call("set_render_pipeline", 0),
                          Call("set_bind_group", 0) >>
  /\ pc' = "draw_loop"
  /\ UNCHANGED <<window_size, extent, simVars, initVars, local_buffer, surface_tex,
                 swapchain, gpuVars, ticks>>

\* 2^32 / a, for a power of two a <= 2^16
WrapPeriod(a) == (65536 \div a) * 65536

\* (i as wgt::DynamicOffset) * (wgt::BIND_BUFFER_ALIGNMENT as wgt::DynamicOffset),
\* wrapping at 2^32
DynamicOffset(i) ==
  (i % WrapPeriod(BIND_BUFFER_ALIGNMENT)) * Sized(BIND_BUFFER_ALIGNMENT)

\* the two commands iteration i of the draw loop records
DrawCommands(i) ==
  << [op |-> "set_bind_group", index |-> 1, group |-> "local",
      offsets |-> <<DynamicOffset(i)>>],
     [op |-> "draw", start_vertex |-> 0, vertex_count |-> 4, start_instance |-> 0,
      instance_count |-> 1] >>

\* the u32 product of iteration i = 2^32 / alignment is the first to overflow:
\* a build with overflow checks panics there, one without them wraps
OffsetOutcomes(n) ==
  IF n <= WrapPeriod(BIND_BUFFER_ALIGNMENT) THEN {"exact"} ELSE {"wrapped", "overflow"}

\* for i in 0..self.bunnies.len(): the loop's commands are kept as one entry
\* standing for DrawCommands(0) \o .. \o DrawCommands(n - 1)
DrawLoop ==
  /\ pc = "draw_loop"
  /\ \E outcome \in OffsetOutcomes(BunniesLen) :
       LET n == IF outcome = "overflow" THEN WrapPeriod(BIND_BUFFER_ALIGNMENT)
                ELSE BunniesLen
       IN /\ cmd_buf' = Append(cmd_buf, [op |-> "draw_loop", n |-> n])
          /\ calls' = Append(calls, Call("draw_loop", n))
          /\ pc' = IF outcome = "overflow" THEN "panicked" ELSE "submit"
  /\ UNCHANGED <<window_size, extent, simVars, initVars, local_buffer, surface_tex,
                 swapchain, gpuVars, ticks>>

\* cmd_buf.finish(); self.queue.submit(iter::once(cmd_buf), None).unwrap()
Submit ==
  /\ pc = "submit"
  /\ \E accepted \in BOOLEAN :
       IF accepted
       THEN /\ gpu_queue' = Append(gpu_queue,
                                   [label |-> "frame", cmds |-> cmd_buf, signal |-> 0,
                                    frame |-> ticks])
            /\ calls' = calls \o << Call("finish", 0), Call("submit", 1) >>
            /\ pc' = "present"
       ELSE /\ calls' = calls \o << Call("finish", 0), Call("submit", 0) >>
            /\ pc' = "panicked"
            /\ UNCHANGED gpu_queue
  /\ cmd_buf' = <<>>
  /\ UNCHANGED <<window_size, extent, simVars, initVars, local_buffer, surface_tex,
                 swapchain, gpu_pos, ticks>>

\* Present handing the first swapchain image to the surface, whichever was acquired
PresentFirstImage ==
  /\ pc = "present"
  /\ swapchain' = [swapchain EXCEPT ![1] = [state |-> "presented", frame |-> ticks]]
  /\ surface_tex' = 0
  /\ calls' = Append(calls, Call("present", 1))
  /\ pc' = "idle"
  /\ UNCHANGED <<window_size, extent, simVars, initVars, local_buffer, cmd_buf,
                 gpuVars, ticks>>

\* self.queue.present(&mut self.surface, surface_tex).unwrap()
Present ==
  /\ pc = "present"
  /\ swapchain' = [swapchain EXCEPT ![surface_tex] = [state |-> "presented", frame |-> ticks]]
  /\ surface_tex' = 0
  /\ calls' = Append(calls, Call("present", surface_tex))
  /\ pc' = "idle"
  /\ UNCHANGED <<window_size, extent, simVars, initVars, local_buffer, cmd_buf,
                 gpuVars, ticks>>

\* --------------------------------------------------------- specifications

InitSteps ==
  \/ InitStaging
  \/ InitRecord
  \/ InitResources
  \/ InitSubmit
  \/ InitWait
  \/ InitDestroyFence
  \/ InitDestroyBuffer
  \/ InitReturn

RenderSteps ==
  \/ BufferMap
  \/ BufferCopy
  \/ BufferUnmap
  \/ AcquireTexture
  \/ BeginPass
  \/ DrawLoop
  \/ Submit
  \/ Present

\* the window events and render calls of the event loop, at most maxSpawns Space
\* presses and maxTicks render calls
Loop(maxSpawns, maxTicks, samples) ==
  \/ \E ev \in Events :
       /\ IsSpawnTrigger(ev) => spawns < maxSpawns
       /\ UpdateCall(ev)
  \/ \E elapsed \in samples : Update(elapsed)
  \/ ticks < maxTicks /\ PhysicsStep

Next == InitSteps \/ GpuStep \/ RenderSteps \/ Loop(MaxSpawns, MaxTicks, ElapsedSamples)

Spec == Init /\ [][Next]_vars

\* many Space presses, few render calls: the population grows past MAX_BUNNIES
GrowthSamples == {[hi |-> 1, lo |-> 127]}

NextGrowth ==
  InitSteps \/ GpuStep \/ RenderSteps \/ Loop(MaxSpawnsGrowth, MaxTicksGrowth, GrowthSamples)

SpecGrowth == Init /\ [][NextGrowth]_vars

\* Space presses before the first render call only, then many render calls
LoopPhysics ==
  \/ \E ev \in Events :
       /\ IsSpawnTrigger(ev) => (spawns < MaxSpawnsPhysics /\ ticks = 0)
       /\ UpdateCall(ev)
  \/ \E elapsed \in ElapsedSamples : Update(elapsed)
  \/ ticks < MaxTicksPhysics /\ PhysicsStep

NextPhysics == InitSteps \/ GpuStep \/ RenderSteps \/ LoopPhysics

SpecPhysics == Init /\ [][NextPhysics]_vars

\* ------------------------------------------------------------ properties

\* a frame's command buffer is submitted and its draws, which read the local
\* buffer at their dynamic offsets, have not all been executed
GpuReadsLocalBuffer ==
  \E k \in 1 .. Len(gpu_queue) :
    /\ gpu_queue[k].label = "frame"
    /\ \E c \in 1 .. Len(gpu_queue[k].cmds) :
         /\ gpu_queue[k].cmds[c].op = "draw_loop"
         /\ gpu_queue[k].cmds[c].n > 0
         /\ (k = 1 => c > gpu_pos)

\* the host has the local buffer mapped for this tick's upload
HostWritesLocalBuffer == local_buffer.mapped /\ UploadSize > 0

\* C1: after any sequence of Space presses and render ticks, bunnies.len() never
\* exceeds MAX_BUNNIES, the capacity the local buffer was allocated for, and no
\* press brings the program down.
C1_PopulationWithinCapacity == BunniesLen <= MAX_BUNNIES /\ pc # "crashed"

\* C2: no reachable state has the host writing the local buffer (mapped for the
\* upload of tick k+1) while the GPU has not finished reading it for the command
\* buffer submitted in tick k.
C2_NoUploadDuringGpuRead == ~(HostWritesLocalBuffer /\ GpuReadsLocalBuffer)

\* the whole record the binding [off, off + size_of::<Locals>()) of the local
\* buffer covers: its index in the uploaded vector, -1 when the range is not one
\* uploaded record (it straddles two, or reaches past the uploaded bytes)
LocalIndexAt(off) ==
  IF off % SizeOfLocals = 0 /\ off + SizeOfLocals <= local_buffer.bytes
  THEN off \div SizeOfLocals
  ELSE -1

\* the dynamic offset draw i binds the local group with
DrawOffset(i) == DrawCommands(i)[1].offsets[1]

\* the first index of each run of the vector
RunStarts == {RunsLen(SubSeq(bunnies, 1, k)) : k \in 0 .. Len(bunnies)}

\* the indices a per-index property is evaluated at: all of them for a small
\* vector, else the ends of the vector, of its runs and of the buffer's capacity
ProbeLimit == 160
Probes(n) ==
  IF n <= ProbeLimit THEN 0 .. n - 1
  ELSE {i \in {0, 1, n \div 2, n - 2, n - 1, MAX_BUNNIES - 1, MAX_BUNNIES}
              \cup RunStarts \cup {r - 1 : r \in RunStarts} : 0 <= i /\ i < n}

\* C3: in every tick the whole live range of the local buffer, bytes
\* 0 .. bunnies.len() * stride, is written and the buffer unmapped before the first
\* draw is recorded, so every draw i recorded in the tick references bytes written
\* in that tick from the post-physics record i.
C3_DrawsReadThisTicksUpload ==
  pc \in {"begin_pass", "draw_loop", "submit"} =>
    /\ ~local_buffer.mapped
    /\ local_buffer.tick = ticks
    /\ local_buffer.bytes = BunniesLen * Sized(BIND_BUFFER_ALIGNMENT)
    /\ \A i \in Probes(BunniesLen) :
         /\ LocalIndexAt(DrawOffset(i)) = i
         /\ RunsAt(local_buffer.runs, i) = BunnyAt(i)

\* C7: record i is written at byte offset i * stride and draw i binds the local
\* group at dynamic offset i * stride, so draw i reads exactly record i; the ranges
\* of two different indices are disjoint.
C7_DrawReadsOwnRecord ==
  pc = "submit" =>
    \A i \in Probes(BunniesLen) :
      /\ DrawOffset(i) = i * SizeOfLocals
      /\ i * SizeOfLocals + SizeOfLocals <= local_buffer.bytes
      /\ \A j \in Probes(BunniesLen) :
           j # i => \/ DrawOffset(i) + SizeOfLocals <= DrawOffset(j)
                    \/ DrawOffset(j) + SizeOfLocals <= DrawOffset(i)

\* the command the queue executes next, when there is one
GpuNextIs(label, op) ==
  /\ gpu_queue # <<>>
  /\ Head(gpu_queue).label = label
  /\ Head(gpu_queue).cmds[gpu_pos + 1].op = op

InitPcs == {"init_staging", "init_record", "init_resources", "init_submit", "init_wait",
            "init_destroy_fence", "init_destroy_buffer", "init_return"}

\* the init submission has been made and the queue has retired it
InitUploadDone ==
  /\ pc \notin {"init_staging", "init_record", "init_resources", "init_submit"}
  /\ \A k \in 1 .. Len(gpu_queue) : gpu_queue[k].label # "init"

\* C4: init_cmd holds exactly four commands, in the order (a) staging buffer to
\* COPY_SRC, (b) texture UNINITIALIZED -> COPY_DST, (c) buffer-to-texture copy,
\* (d) texture COPY_DST -> SAMPLED; so the texture is in COPY_DST when the copy
\* executes and in SAMPLED, holding the texels, when a frame samples it.
C4_UploadCommandOrder ==
  /\ pc \notin {"init_staging", "init_record"} =>
       /\ Len(init_cmd) = 4
       /\ init_cmd[1].op = "transition_buffers" /\ init_cmd[1].to = "COPY_SRC"
       /\ init_cmd[2].op = "transition_textures"
       /\ init_cmd[2].from = "UNINITIALIZED" /\ init_cmd[2].to = "COPY_DST"
       /\ init_cmd[3].op = "copy_buffer_to_texture"
       /\ init_cmd[4].op = "transition_textures"
       /\ init_cmd[4].from = "COPY_DST" /\ init_cmd[4].to = "SAMPLED"
  /\ GpuNextIs("init", "copy_buffer_to_texture") =>
       texture.use = "COPY_DST" /\ staging_buffer.use = "COPY_SRC"
  /\ (\E k \in 1 .. Len(gpu_queue) : gpu_queue[k].label = "frame") =>
       texture = [use |-> "SAMPLED", content |-> "texels"]

\* a frame is about to be drawn by the queue, sampling the uploaded texture
C4_Witness == GpuNextIs("frame", "draw_loop") /\ texture.use = "SAMPLED"

\* C5: in init the staging buffer and the fence are destroyed only after the init
\* command buffer was submitted with the fence and the wait on it has returned,
\* never while the upload may still execute; init returns no Example before that.
C5_DestroyAfterWait ==
  /\ staging_buffer.state = "destroyed" => InitUploadDone
  /\ fence.state = "destroyed" => InitUploadDone /\ fence.value >= InitFenceValue
  /\ pc \notin InitPcs => InitUploadDone
  /\ GpuNextIs("init", "copy_buffer_to_texture") => staging_buffer.state = "written"

\* init has returned with the staging buffer and the fence destroyed
C5_Witness ==
  pc = "idle" /\ staging_buffer.state = "destroyed" /\ fence.state = "destroyed"

\* the phase of the frame renderer the host stands in; the physics step is the
\* step that leaves Idle
Phase(p) ==
  CASE p \in {"upload_map", "upload_copy", "upload_unmap"} -> "BufferUpload"
    [] p \in {"acquire", "begin_pass", "draw_loop"} -> "RecordPass"
    [] p = "submit" -> "Submit"
    [] p = "present" -> "Present"
    [] p \in {"panicked", "crashed"} -> "Aborted"
    [] OTHER -> "Idle"

PhaseOrder ==
  { <<"Idle", "BufferUpload">>, <<"BufferUpload", "RecordPass">>,
    <<"RecordPass", "Submit">>, <<"Submit", "Present">>, <<"Present", "Idle">> }

\* C6: every render tick runs PhysicsStep -> BufferUpload -> RecordPass -> Submit
\* -> Present in this order, each once, and a tick enters PhysicsStep only from
\* Idle, after the previous tick has presented its image.
C6_PhaseOrder ==
  [][ /\ Phase(pc') # Phase(pc) =>
           \/ <<Phase(pc), Phase(pc')>> \in PhaseOrder
           \/ Phase(pc') = "Aborted"
      /\ ticks' # ticks <=> (Phase(pc) = "Idle" /\ Phase(pc') = "BufferUpload")
      /\ ticks' # ticks => ticks' = ticks + 1
      /\ (bunnies' # bunnies /\ spawns' = spawns /\ pc \notin InitPcs) => ticks' # ticks
      /\ ticks' # ticks =>
           /\ pc \notin InitPcs
           /\ surface_tex = 0
           /\ ticks > 0 => \E i \in Images : swapchain[i] = [state |-> "presented",
                                                            frame |-> ticks]
      /\ local_buffer' # local_buffer /\ pc \notin InitPcs => Phase(pc) = "BufferUpload"
      /\ Len(cmd_buf') > Len(cmd_buf) => Phase(pc) = "RecordPass"
      /\ Phase(pc) = "RecordPass" /\ Phase(pc') = "Submit" =>
           /\ Len(cmd_buf') = 4
           /\ cmd_buf'[4] = [op |-> "draw_loop", n |-> BunniesLen]
      /\ pc \notin InitPcs /\ Len(gpu_queue') > Len(gpu_queue) =>
           /\ Phase(pc) = "Submit" /\ Phase(pc') = "Present"
           /\ gpu_queue'[Len(gpu_queue')].frame = ticks
      /\ Phase(pc) = "Submit" /\ Phase(pc') = "Present" => Len(gpu_queue') = Len(gpu_queue) + 1
      /\ swapchain' # swapchain => Phase(pc) \in {"RecordPass", "Present"}
      /\ Phase(pc) = "Present" /\ Phase(pc') = "Idle" =>
           swapchain'[surface_tex] = [state |-> "presented", frame |-> ticks]
    ]_vars

\* two whole ticks have run
C6_Witness == pc = "idle" /\ ticks = 2 /\ spawns > 0

\* C8: a Space press at population n appends exactly 64 + floor(n / 2) records,
\* leaving the n records before them as they were; at n = 0 it appends exactly 64.
C8_SpawnBatchSize ==
  [][ spawns' # spawns =>
        /\ spawns' = spawns + 1
        /\ RunsLen(bunnies') = BunniesLen + 64 + BunniesLen \div 2
        /\ BunniesLen = 0 => RunsLen(bunnies') = 64
        /\ RunsPrefix(bunnies', BunniesLen) = bunnies
    ]_vars

\* the first press has appended its 64 records and a later press half as many more
C8_Witness == spawns = 2 /\ BunniesLen = 64 + (64 + 32)

Abs(x) == IF x < 0 THEN -x ELSE x

\* C9: after any number of render ticks no bunny's position leaves [0, extent] on
\* an axis (x against the window width, y against the window height) by more than
\* the displacement of one integration step, and a reflection only flips the sign
\* of the velocity component (the speed along x stays the one it was spawned with).
C9_PositionWithinExtent ==
  pc \notin InitPcs =>
    \A k \in 1 .. Len(bunnies) :
      LET b == bunnies[k].rec
          sx == Abs(Displacement(b.velocity[1]))
          sy == Abs(Displacement(b.velocity[2])) + Abs(Displacement(GravityStep))
      IN /\ -sx <= b.position[1] /\ b.position[1] <= extent[1] * PosScale + sx
         /\ -sy <= b.position[2] /\ b.position[2] <= extent[2] * PosScale + sy
         /\ 255 * Abs(b.velocity[1]) =
              Abs((b.color % 256) * MAX_VELOCITY * VelScale - (255 * MAX_VELOCITY * VelScale) \div 2)

\* C10: every record a Space press creates has position (0, window_height / 2),
\* velocity (speed, 0) and color = the elapsed nanoseconds truncated to 32 bits, with
\* speed = ((elapsed & 0xFF) / 255) * MAX_VELOCITY - MAX_VELOCITY / 2, which lies in
\* [-MAX_VELOCITY / 2, MAX_VELOCITY / 2]; the records of one batch are all the same.
C10_SpawnedRecord ==
  [][ spawns' # spawns =>
        \A i \in BunniesLen .. RunsLen(bunnies') - 1 :
          LET b == RunsAt(bunnies', i)
              low == clock'.lo % 256
          IN /\ b.position[1] = 0
             /\ 2 * b.position[2] = extent[2] * PosScale
             /\ b.velocity[2] = 0
             /\ 2 * 255 * b.velocity[1] =
                  (2 * low * MAX_VELOCITY - 255 * MAX_VELOCITY) * VelScale
             /\ 2 * Abs(b.velocity[1]) <= MAX_VELOCITY * VelScale
             /\ b.color = clock'.lo
             /\ b = RunsAt(bunnies', BunniesLen)
    ]_vars

\* a batch spawned after more than 2^32 ns, so that the truncation of the color
\* shows, on top of an earlier batch
C10_Witness == spawns = 2 /\ clock.hi > 0 /\ Len(bunnies) = 2

\* ---------------------------------------------------------------------------
\* C11: the first render call after the first spawn

\* the step is the first render call and one spawn preceded it
FirstTickAfterOneSpawn == ticks = 0 /\ ticks' = 1 /\ spawns = 1

\* window_height / 2 is at least half a sprite: the spawn height clears the ground
SpawnClearsGround == extent[2] * BunnySizeDen >= BunnySizeNum

\* C11 as stated: after one spawn into the empty vector and one render call, every
\* record has y-velocity GRAVITY * delta, x-position initial x-velocity * delta
\* and y-position window_height / 2
C11_FirstTickAsStated ==
  [][FirstTickAfterOneSpawn =>
       /\ RunsLen(bunnies') = 64
       /\ \A k \in 1 .. Len(bunnies) :
            /\ bunnies'[k].rec.velocity[2] * DeltaDen = GRAVITY * VelScale
            /\ bunnies'[k].rec.position[1] * VelScale * DeltaDen
                 = bunnies[k].rec.velocity[1] * PosScale
            /\ 2 * bunnies'[k].rec.position[2] = extent[2] * PosScale]_vars

\* C11 amended: as stated when window_height / 2 >= BUNNY_SIZE / 2; in a lower
\* window the ground test of the same call reflects the y-velocity, which is then
\* -GRAVITY * delta; the positions are as stated in both cases
C11_FirstTick ==
  [][FirstTickAfterOneSpawn =>
       /\ RunsLen(bunnies') = 64
       /\ \A k \in 1 .. Len(bunnies) :
            /\ bunnies'[k].rec.velocity[2] * DeltaDen
                 = IF SpawnClearsGround THEN GRAVITY * VelScale ELSE -(GRAVITY * VelScale)
            /\ bunnies'[k].rec.position[1] * VelScale * DeltaDen
                 = bunnies[k].rec.velocity[1] * PosScale
            /\ 2 * bunnies'[k].rec.position[2] = extent[2] * PosScale]_vars

\* 64 records spawned at (0, 300) in the 800x600 window, stepped once
C11_Witness ==
  /\ ticks = 1 /\ spawns = 1 /\ pc = "upload_map"
  /\ extent = <<800, 600>>
  /\ BunniesLen = 64
  /\ bunnies[1].rec.position[2] = 300 * PosScale
  /\ bunnies[1].rec.velocity[2] * DeltaDen = GRAVITY * VelScale
  /\ bunnies[1].rec.position[1] # 0

\* ---------------------------------------------------------------------------
\* C12: acquisition timeouts

\* the positions in calls of the calls of one HAL function
CallsOf(name) == {k \in 1 .. Len(calls) : calls[k].call = name}

\* the render call stopped on an acquisition that returned no image in time
AcquireTimedOut ==
  /\ calls # <<>>
  /\ calls[Len(calls)] = Call("acquire_texture", 0)

\* C12: an acquisition that times out is retried once before the render call
\* gives up, so a render call that ended on a timeout has acquired twice
C12_TimeoutRetriedOnce ==
  (pc = "panicked" /\ AcquireTimedOut) => Cardinality(CallsOf("acquire_texture")) >= 2

\* ---------------------------------------------------------------------------
\* C13: the render pass is closed before finish

\* the calls of one HAL function made before position k of calls
CallsBefore(name, k) == {j \in CallsOf(name) : j < k}

\* a pass is open before position k: more passes begun than ended
PassOpenAt(k) ==
  Cardinality(CallsBefore("begin_render_pass", k))
    > Cardinality(CallsBefore("end_render_pass", k))

\* the commands that are legal inside a render pass only
PassOnlyCalls == {"set_render_pipeline", "set_bind_group", "draw_loop"}

\* C13: in every render call the pipeline, bind and draw commands are recorded
\* while the pass is open, and the pass has been ended when finish is called,
\* so no submitted frame holds a pass that was begun and not ended
C13_PassEndedBeforeFinish ==
  /\ \A k \in 1 .. Len(calls) :
       /\ calls[k].call \in PassOnlyCalls => PassOpenAt(k)
       /\ calls[k].call = "finish" => ~PassOpenAt(k)
  /\ \A s \in 1 .. Len(gpu_queue) :
       gpu_queue[s].label = "frame" =>
         Cardinality({k \in 1 .. Len(gpu_queue[s].cmds) :
                        gpu_queue[s].cmds[k].op = "begin_render_pass"})
           = Cardinality({k \in 1 .. Len(gpu_queue[s].cmds) :
                            gpu_queue[s].cmds[k].op = "end_render_pass"})

\* ---------------------------------------------------------------------------
\* C14: dynamic offsets and ranges

\* the dynamic offset of every draw is the exact product of its index and the
\* alignment
OffsetsExact ==
  \A i \in Probes(BunniesLen) : DrawOffset(i) = i * Sized(BIND_BUFFER_ALIGNMENT)

\* C14: for every draw of a render call the 32-bit offset is the exact product
\* i * 256, a multiple of the binding alignment, and the bound range
\* [offset, offset + size_of::<Locals>()) as well as the mapped upload range
\* [0, len * 256) lie inside the local buffer of MAX_BUNNIES * 256 bytes
C14_OffsetsInBounds ==
  /\ local_buffer.mapped => UploadSize <= LocalBufferSize
  /\ pc = "submit" =>
       /\ OffsetsExact
       /\ \A i \in Probes(BunniesLen) :
            /\ DrawOffset(i) % Sized(BIND_BUFFER_ALIGNMENT) = 0
            /\ DrawOffset(i) + SizeOfLocals <= LocalBufferSize

\* ---------------------------------------------------------------------------
\* C15: one image acquired and presented per render call

\* C15: a render call acquires at most one swapchain image, before it begins the
\* render pass on that image, and presents at most once, the image it acquired,
\* after its command buffer was submitted; a render call that has returned has
\* done both exactly once and holds no acquired image
C15_AcquireOncePresentOnce ==
  LET acq == CallsOf("acquire_texture")
      pre == CallsOf("present")
  IN /\ Cardinality(acq) <= 1
     /\ Cardinality(pre) <= 1
     /\ \A b \in CallsOf("begin_render_pass") :
          \E a \in acq : a < b /\ calls[a].arg \in Images /\ calls[b].arg = calls[a].arg
     /\ \A p \in pre :
          /\ \E a \in acq : a < p /\ calls[a].arg = calls[p].arg
          /\ \E s \in CallsOf("submit") : s < p /\ calls[s].arg = 1
          /\ swapchain[calls[p].arg] = [state |-> "presented", frame |-> ticks]
     /\ (pc = "idle" /\ ticks > 0) =>
          /\ Cardinality(acq) = 1
          /\ Cardinality(pre) = 1
          /\ surface_tex = 0
          /\ \A i \in Images : swapchain[i].state # "acquired"

\* the second render call has returned after presenting the second image
C15_Witness ==
  /\ pc = "idle" /\ ticks = 2
  /\ Call("acquire_texture", 2) \in {calls[k] : k \in 1 .. Len(calls)}
  /\ calls[Len(calls)] = Call("present", 2)

\* ---------------------------------------------------------------------------
\* C16: the commands of one render call

\* command k of the frame's command buffer, the draw loop's entry unfolded into
\* the two commands of each iteration
RecordedCommand(k) ==
  IF k < Len(cmd_buf) THEN cmd_buf[k]
  ELSE DrawCommands((k - Len(cmd_buf)) \div 2)[((k - Len(cmd_buf)) % 2) + 1]

\* the draw loop has run: its entry closes the command buffer
DrawsRecorded == cmd_buf # <<>> /\ cmd_buf[Len(cmd_buf)].op = "draw_loop"

\* C16: a render call with n bunnies records n draws of 4 vertices and 1 instance,
\* draw i right after the bind of the local group at slot 1 with offset i * 256,
\* in index order, after one bind of the pipeline and one of the global group at
\* slot 0; with no bunny the pass is recorded, submitted and presented all the same
C16_OneDrawPerBunny ==
  /\ DrawsRecorded =>
       /\ cmd_buf[Len(cmd_buf)].n = BunniesLen
       /\ Len(cmd_buf) = 4
       /\ cmd_buf[1].op = "begin_render_pass"
       /\ cmd_buf[2].op = "set_render_pipeline"
       /\ cmd_buf[3] = [op |-> "set_bind_group", index |-> 0, group |-> "global",
                        offsets |-> <<>>]
       /\ \A i \in Probes(BunniesLen) :
            LET bind == RecordedCommand(4 + 2 * i)
                draw == RecordedCommand(4 + 2 * i + 1)
            IN /\ bind.op = "set_bind_group" /\ bind.index = 1 /\ bind.group = "local"
               /\ bind.offsets = << i * Sized(BIND_BUFFER_ALIGNMENT) >>
               /\ draw.op = "draw" /\ draw.vertex_count = 4 /\ draw.instance_count = 1
  /\ (pc = "idle" /\ ticks > 0) =>
       \E d \in CallsOf("draw_loop"), s \in CallsOf("submit"), p \in CallsOf("present") :
         d < s /\ s < p /\ calls[s].arg = 1

\* ---------------------------------------------------------------------------
\* C17: the vector only grows, at its end

\* C17: no step shrinks or reorders bunnies: a Space press keeps the records it
\* found, in place, and appends after them; a render call keeps the number and
\* the order of the records and changes their position and velocity only, never
\* the color; no other step touches the vector
C17_AppendOnly ==
  [][ /\ RunsLen(bunnies') >= BunniesLen
      /\ spawns' # spawns => RunsPrefix(bunnies', BunniesLen) = bunnies
      /\ ticks' # ticks =>
           /\ Len(bunnies') = Len(bunnies)
           /\ \A k \in 1 .. Len(bunnies) :
                /\ bunnies'[k].count = bunnies[k].count
                /\ bunnies'[k].rec.color = bunnies[k].rec.color
                /\ bunnies'[k].rec.pad = bunnies[k].rec.pad
      /\ (spawns' = spawns /\ ticks' = ticks) => bunnies' = bunnies
    ]_vars

\* two batches of different color, the second spawned after the first render
\* call, have been stepped by the second render call
C17_Witness ==
  /\ ticks = 2 /\ spawns = 2 /\ pc = "upload_map"
  /\ Len(bunnies) = 2
  /\ bunnies[1].rec.color # bunnies[2].rec.color
  /\ bunnies[1].rec.velocity[2] # bunnies[2].rec.velocity[2]

\* ---------------------------------------------------------------------------
\* C18: update ignores every other event

\* the one event update reacts to: keyboard input, key Space, state Pressed
SpacePressed ==
  event.kind = "KeyboardInput" /\ event.key = "Space" /\ event.state = "Pressed"

\* C18: an update call whose event is not keyboard input Space Pressed (a resize,
\* another key, a release of Space) returns with the records, the extent, the
\* clock reading and every GPU object as it found them: no spawn, no other change
C18_OtherEventsIgnored ==
  [][ (pc = "update" /\ pc' # "update" /\ ~SpacePressed) =>
        /\ pc' = "idle"
        /\ UNCHANGED <<bunnies, extent, clock, spawns, window_size, ticks>>
        /\ UNCHANGED <<initVars, frameVars, gpuVars>>
    ]_vars

\* update is handling a release of Space with bunnies alive and a frame rendered
C18_Witness ==
  /\ pc = "update"
  /\ event = [kind |-> "KeyboardInput", key |-> "Space", state |-> "Released"]
  /\ BunniesLen > 0
  /\ ticks > 0

====
